---- MODULE Spec2Model ----
(***************************************************************************)
(* Model of mem0.py: a linear script that builds a MemoryClient, creates   *)
(* one memory, prints it, lists all memories and prints each of them.      *)
(*                                                                         *)
(* The script is the only code of the repository.  The memory service it   *)
(* talks to is an external collaborator; it is modelled as the record      *)
(* store the specification describes (create adds a record under a fresh   *)
(* server-assigned id, list returns the records, other actors of the       *)
(* account may destroy records at any time).                               *)
(***************************************************************************)
EXTENDS Naturals, Sequences, FiniteSets

\* ------------------------------------------------------------------ bounds

\* Largest number of records the account holds before the run.
MaxStore == 2

\* Identifiers the service can hand out: one more than the account can hold
\* before the run, so the service can always assign a fresh one.
Ids == 1 .. (MaxStore + 1)

\* ------------------------------------------------------- program constants

API_KEY == "your-api-key"

TITLE == "Mijn eerste memory"

CONTENT == "Dit is een voorbeeld van data opslaan in Mem0 via Python."

CREATED_LABEL == "Memory aangemaakt:"

HEADER_LINE == "Overzicht van memories:"

RECORD_LABEL == "ID: , Titel: , Inhoud: "

\* ------------------------------------------------------------ data model

\* The identifier no record of the service carries (the empty identifier).
NoId == 0

\* Titles / contents of records that other runs left in the account.
PriorTexts == {<<TITLE, CONTENT>>, <<"", "oud">>}

Record(id, title, content) == [id |-> id, title |-> title, content |-> content]

\* The value of a name the script has not bound yet.
NoRecord == Record(NoId, "", "")

IdsOf(s) == {s[i].id : i \in 1 .. Len(s)}

InsertAt(s, pos, r) == SubSeq(s, 1, pos) \o <<r>> \o SubSeq(s, pos + 1, Len(s))

RemoveAt(s, pos) == SubSeq(s, 1, pos - 1) \o SubSeq(s, pos + 1, Len(s))

\* Stores the account can hold before the run: up to MaxStore records with
\* pairwise distinct ids, in any order.
RECURSIVE StoresOfLen(_)
StoresOfLen(n) ==
    IF n = 0 THEN {<<>>}
    ELSE {Append(s, Record(i, t[1], t[2])) :
             s \in StoresOfLen(n - 1), i \in Ids, t \in PriorTexts}

InitialStores ==
    {s \in UNION {StoresOfLen(n) : n \in 0 .. MaxStore} :
        Cardinality(IdsOf(s)) = Len(s)}

\* --------------------------------------------------------------- the state

VARIABLES
    pc,         \* the statement the script executes next
    bound,      \* the names the script has bound so far
    item,       \* the value of `item` (line 7)
    memories,   \* the value of `memories` (line 14)
    idx,        \* how many elements the for loop (line 16) has consumed
    output,     \* the console: the lines printed so far
    events,     \* history: the calls issued and the prints done, in order
    failedAt,   \* the statement whose exception ended the run, or "none"
    credValid,  \* whether the service accepts API_KEY
    store,      \* the records of the account on the service
    issued,     \* every id the service has ever assigned
    destroyed   \* history: [id, listed] of each record other actors destroyed,
                \* `listed` whether list (line 14) had returned by then

vars == <<pc, bound, item, memories, idx, output, events, failedAt,
          credValid, store, issued, destroyed>>

scriptVars == <<pc, bound, item, memories, idx, output, events, failedAt>>

Terminal == {"done", "aborted"}

\* ------------------------------------------------------ the memory service

\* Mutant of CreateRequest: the two arguments passed in each other's place.
CreateRequest_swapped == [title |-> CONTENT, content |-> TITLE]

\* What the script sends with create_memory: the two keyword arguments.
CreateRequest == [title |-> TITLE, content |-> CONTENT]

\* The record the service makes of a request under the id it assigns.
RemoteRecord(req, newId) == Record(newId, req.title, req.content)

\* create: the account's records with the new one added at some position.
RemoteCreate(st, req, newId, pos) == InsertAt(st, pos, RemoteRecord(req, newId))

\* list: all records of the account, no filter, no page.
RemoteList(st) == st

\* ------------------------------------------------------------- the console

PrintItemLine(it) ==
    [label |-> CREATED_LABEL, id |-> it.id, title |-> it.title, content |-> it.content]

PrintHeaderLine == [label |-> HEADER_LINE, id |-> NoId, title |-> "", content |-> ""]

PrintMemLine(mem) ==
    [label |-> RECORD_LABEL, id |-> mem["id"], title |-> mem["title"],
     content |-> mem["content"]]

\* -------------------------------------------------------------- the script

\* An exception nobody catches: the run ends at statement `at`.
Raise(at) ==
    /\ pc' = "aborted"
    /\ failedAt' = at

Init ==
    /\ pc = "import"
    /\ bound = {}
    /\ item = NoRecord
    /\ memories = <<>>
    /\ idx = 0
    /\ output = <<>>
    /\ events = <<>>
    /\ failedAt = "none"
    /\ credValid \in BOOLEAN
    /\ store \in InitialStores
    /\ issued = IdsOf(store)
    /\ destroyed = {}

\* line 1: from mem0 import MemoryClient
\* The import can fail: the library may be absent, and the script is itself
\* named mem0.py, so run from its own directory the name mem0 resolves to the
\* script and the import raises ImportError.
Import ==
    /\ pc = "import"
    /\ events' = Append(events, "import")
    /\ \/ /\ pc' = "init"
          /\ bound' = bound \cup {"MemoryClient"}
          /\ UNCHANGED failedAt
       \/ /\ Raise("import")
          /\ UNCHANGED bound
    /\ UNCHANGED <<item, memories, idx, output, credValid, store, issued, destroyed>>

\* Mutant of NewClient: the listing statement placed before the creation.
NewClient_listFirst ==
    /\ pc = "init"
    /\ events' = Append(events, "init")
    /\ \/ /\ pc' = "list"
          /\ bound' = bound \cup {"client"}
          /\ UNCHANGED failedAt
       \/ /\ Raise("init")
          /\ UNCHANGED bound
    /\ UNCHANGED <<item, memories, idx, output, credValid, store, issued, destroyed>>

\* line 4: client = MemoryClient(api_key="your-api-key")
NewClient ==
    /\ pc = "init"
    /\ events' = Append(events, "init")
    /\ \/ /\ pc' = "create"
          /\ bound' = bound \cup {"client"}
          /\ UNCHANGED failedAt
       \/ /\ Raise("init")
          /\ UNCHANGED bound
    /\ UNCHANGED <<item, memories, idx, output, credValid, store, issued, destroyed>>

\* Mutant of CreateMemory: a failed call is tried again.
CreateMemory_retry ==
    /\ pc = "create"
    /\ events' = Append(events, "create")
    /\ \/ /\ credValid
          /\ \E newId \in Ids \ issued, pos \in 0 .. Len(store) :
                /\ store' = RemoteCreate(store, CreateRequest, newId, pos)
                /\ issued' = issued \cup {newId}
                /\ item' = RemoteRecord(CreateRequest, newId)
          /\ bound' = bound \cup {"item"}
          /\ pc' = "print_item"
          /\ UNCHANGED failedAt
       \/ /\ Len(events) < 4
          /\ pc' = "create"
          /\ failedAt' = "create"
          /\ UNCHANGED <<bound, item, store, issued>>
    /\ UNCHANGED <<memories, idx, output, credValid, destroyed>>

\* Mutant of CreateMemory: the exception is caught and the script goes on.
CreateMemory_swallow ==
    /\ pc = "create"
    /\ events' = Append(events, "create")
    /\ \/ /\ credValid
          /\ \E newId \in Ids \ issued, pos \in 0 .. Len(store) :
                /\ store' = RemoteCreate(store, CreateRequest, newId, pos)
                /\ issued' = issued \cup {newId}
                /\ item' = RemoteRecord(CreateRequest, newId)
          /\ bound' = bound \cup {"item"}
          /\ pc' = "print_item"
          /\ UNCHANGED failedAt
       \/ /\ pc' = "print_item"
          /\ UNCHANGED <<failedAt, bound, item, store, issued>>
    /\ UNCHANGED <<memories, idx, output, credValid, destroyed>>

\* Mutant of CreateMemory: the create call is issued twice.
CreateMemory_twice ==
    /\ pc = "create"
    /\ events' = Append(events, "create")
    /\ \/ /\ credValid
          /\ \E newId \in Ids \ issued, pos \in 0 .. Len(store) :
                \E otherId \in Ids \ (issued \cup {newId}) :
                   /\ store' = RemoteCreate(
                                  RemoteCreate(store, CreateRequest, otherId, pos),
                                  CreateRequest, newId, pos)
                   /\ issued' = issued \cup {newId, otherId}
                   /\ item' = RemoteRecord(CreateRequest, newId)
          /\ bound' = bound \cup {"item"}
          /\ pc' = "print_item"
          /\ UNCHANGED failedAt
       \/ /\ Raise("create")
          /\ UNCHANGED <<bound, item, store, issued>>
    /\ UNCHANGED <<memories, idx, output, credValid, destroyed>>

\* lines 7-10: item = client.create_memory(title=..., content=...)
CreateMemory ==
    /\ pc = "create"
    /\ events' = Append(events, "create")
    /\ \/ /\ credValid
          /\ \E newId \in Ids \ issued, pos \in 0 .. Len(store) :
                /\ store' = RemoteCreate(store, CreateRequest, newId, pos)
                /\ issued' = issued \cup {newId}
                /\ item' = RemoteRecord(CreateRequest, newId)
          /\ bound' = bound \cup {"item"}
          /\ pc' = "print_item"
          /\ UNCHANGED failedAt
       \/ /\ Raise("create")
          /\ UNCHANGED <<bound, item, store, issued>>
    /\ UNCHANGED <<memories, idx, output, credValid, destroyed>>

\* line 11: print("Memory aangemaakt:", item)
PrintItem ==
    /\ pc = "print_item"
    /\ events' = Append(events, "print_item")
    /\ output' = Append(output, PrintItemLine(item))
    /\ pc' = "list"
    /\ UNCHANGED <<bound, item, memories, idx, failedAt, credValid, store, issued,
                   destroyed>>

\* Mutant of ListMemories: only the first page (one record) is kept.
ListMemories_firstPage ==
    /\ pc = "list"
    /\ events' = Append(events, "list")
    /\ \/ /\ credValid
          /\ memories' = SubSeq(RemoteList(store), 1, 1)
          /\ bound' = bound \cup {"memories"}
          /\ pc' = "print_header"
          /\ UNCHANGED <<failedAt, output>>
       \/ /\ Raise("list")
          /\ UNCHANGED <<bound, memories, output>>
    /\ UNCHANGED <<item, idx, credValid, store, issued, destroyed>>

\* Mutant of ListMemories: a failure is reported on the console.
ListMemories_reportsError ==
    /\ pc = "list"
    /\ events' = Append(events, "list")
    /\ \/ /\ credValid
          /\ memories' = RemoteList(store)
          /\ bound' = bound \cup {"memories"}
          /\ pc' = "print_header"
          /\ UNCHANGED <<failedAt, output>>
       \/ /\ Raise("list")
          /\ output' = Append(output, PrintHeaderLine)
          /\ UNCHANGED <<bound, memories>>
    /\ UNCHANGED <<item, idx, credValid, store, issued, destroyed>>

\* line 14: memories = client.list_memories()
ListMemories ==
    /\ pc = "list"
    /\ events' = Append(events, "list")
    /\ \/ /\ credValid
          /\ memories' = RemoteList(store)
          /\ bound' = bound \cup {"memories"}
          /\ pc' = "print_header"
          /\ UNCHANGED failedAt
       \/ /\ Raise("list")
          /\ UNCHANGED <<bound, memories>>
    /\ UNCHANGED <<item, idx, output, credValid, store, issued, destroyed>>

\* line 15: print("Overzicht van memories:")
PrintHeader ==
    /\ pc = "print_header"
    /\ events' = Append(events, "print_header")
    /\ output' = Append(output, PrintHeaderLine)
    /\ pc' = "loop"
    /\ UNCHANGED <<bound, item, memories, idx, failedAt, credValid, store, issued,
                   destroyed>>

\* Mutant of ForLoop: the loop stops one element early.
ForLoop_offByOne ==
    /\ pc = "loop"
    /\ \/ /\ idx + 1 < Len(memories)
          /\ idx' = idx + 1
          /\ bound' = bound \cup {"mem"}
          /\ output' = Append(output, PrintMemLine(memories[idx + 1]))
          /\ events' = Append(events, "print_mem")
          /\ UNCHANGED pc
       \/ /\ idx + 1 >= Len(memories)
          /\ pc' = "done"
          /\ UNCHANGED <<idx, bound, output, events>>
    /\ UNCHANGED <<item, memories, failedAt, credValid, store, issued, destroyed>>

\* Mutant of ForLoop: an empty listing is answered with a line of its own.
ForLoop_emptyNote ==
    /\ pc = "loop"
    /\ \/ /\ idx < Len(memories)
          /\ idx' = idx + 1
          /\ bound' = bound \cup {"mem"}
          /\ output' = Append(output, PrintMemLine(memories[idx + 1]))
          /\ events' = Append(events, "print_mem")
          /\ UNCHANGED pc
       \/ /\ idx >= Len(memories)
          /\ pc' = "done"
          /\ output' = IF memories = <<>> THEN Append(output, PrintMemLine(NoRecord))
                       ELSE output
          /\ UNCHANGED <<idx, bound, events>>
    /\ UNCHANGED <<item, memories, failedAt, credValid, store, issued, destroyed>>

\* Mutant of ForLoop: the loop is never left once the sequence is consumed.
ForLoop_neverExits ==
    /\ pc = "loop"
    /\ idx < Len(memories)
    /\ idx' = idx + 1
    /\ bound' = bound \cup {"mem"}
    /\ output' = Append(output, PrintMemLine(memories[idx + 1]))
    /\ events' = Append(events, "print_mem")
    /\ UNCHANGED pc
    /\ UNCHANGED <<item, memories, failedAt, credValid, store, issued, destroyed>>

\* lines 16-17: for mem in memories: print(f"ID: ..., Titel: ..., Inhoud: ...")
ForLoop ==
    /\ pc = "loop"
    /\ \/ /\ idx < Len(memories)
          /\ idx' = idx + 1
          /\ bound' = bound \cup {"mem"}
          /\ output' = Append(output, PrintMemLine(memories[idx + 1]))
          /\ events' = Append(events, "print_mem")
          /\ UNCHANGED pc
       \/ /\ idx >= Len(memories)
          /\ pc' = "done"
          /\ UNCHANGED <<idx, bound, output, events>>
    /\ UNCHANGED <<item, memories, failedAt, credValid, store, issued, destroyed>>

ScriptNext ==
    \/ Import
    \/ NewClient
    \/ CreateMemory
    \/ PrintItem
    \/ ListMemories
    \/ PrintHeader
    \/ ForLoop

\* Another actor of the account destroys a record on the service.
RemoteDestroy ==
    /\ \E pos \in 1 .. Len(store) :
          /\ store' = RemoveAt(store, pos)
          /\ destroyed' = destroyed \cup {[id |-> store[pos].id, listed |-> "memories" \in bound]}
    /\ UNCHANGED <<scriptVars, credValid, issued>>

Next ==
    \/ ScriptNext
    \/ RemoteDestroy

Spec == Init /\ [][Next]_vars

\* The interpreter always executes the next statement of a running script.
FairSpec == Spec /\ WF_vars(ScriptNext)

\* ---------------------------------------------------------------- helpers

RECURSIVE Count(_, _)
Count(s, e) ==
    IF s = <<>> THEN 0
    ELSE (IF s[1] = e THEN 1 ELSE 0) + Count(Tail(s), e)

IsPrefix(s, t) == Len(s) <= Len(t) /\ SubSeq(t, 1, Len(s)) = s

\* The events of a run that meets no failure and lists n records.
CanonicalEvents(n) ==
    <<"import", "init", "create", "print_item", "list", "print_header">>
        \o [i \in 1 .. n |-> "print_mem"]

\* The console after the first n records of `memories` have been printed.
ExpectedOutput(n) ==
    <<PrintItemLine(item), PrintHeaderLine>>
        \o [i \in 1 .. n |-> PrintMemLine(memories[i])]

\* The created record was destroyed by another actor before list returned.
DestroyedBeforeList(id) ==
    \E d \in destroyed : d.id = id /\ ~d.listed

\* A statement of the script (not another actor) takes the step.
ScriptStep == scriptVars' # scriptVars

\* ------------------------------------------------------------------ claims

\* C1: the observable events occur in one fixed order (import, client
\* initialisation, create call, confirmation line, list call, header line,
\* per-record lines); the list call is issued only after create returned a
\* record, and each print happens only after the call it reports returned.
C1_FixedOrder ==
    /\ IsPrefix(events, CanonicalEvents(Len(memories)))
    /\ Count(events, "list") > 0 => "item" \in bound
    /\ Count(events, "print_item") > 0 =>
          "item" \in bound /\ output[1] = PrintItemLine(item)
    /\ Count(events, "print_header") > 0 => "memories" \in bound
    /\ Count(events, "print_mem") > 0 => "memories" \in bound
    /\ "item" \in bound => Count(events, "create") = 1
    /\ "memories" \in bound => Count(events, "list") = 1

C1_Witness ==
    /\ pc = "done"
    /\ Len(memories) >= 2
    /\ events = CanonicalEvents(Len(memories))

\* C2: a failure of client initialisation, create or list is fatal: the run
\* is aborted at that statement, the failed call was issued once and is the
\* last event of the run, and an aborted script never takes another step.
C2_FailureIsFatal ==
    /\ [](failedAt # "none" =>
            /\ pc = "aborted"
            /\ events # <<>>
            /\ events[Len(events)] = failedAt
            /\ Count(events, failedAt) = 1)
    /\ [](pc = "aborted" => failedAt \in {"import", "init", "create", "list"})
    /\ [][pc = "aborted" => UNCHANGED scriptVars]_vars

C2_Witness ==
    /\ pc = "aborted"
    /\ failedAt = "create"
    /\ credValid
    /\ store # <<>>

\* C3: with an invalid credential nothing is ever printed and no record is
\* ever bound to item; the run can only end aborted, at create at the latest.
C3_InvalidCredential ==
    ~credValid =>
        /\ output = <<>>
        /\ "item" \notin bound
        /\ item = NoRecord
        /\ pc \in {"import", "init", "create", "aborted"}
        /\ pc = "aborted" => failedAt \in {"import", "init", "create"}

C3_Witness ==
    /\ ~credValid
    /\ pc = "aborted"
    /\ failedAt = "create"
    /\ output = <<>>

\* C4 as stated: whenever create and then list have succeeded, the listed
\* collection contains a record with the created record's identifier.
C4_ListedContainsCreated ==
    "memories" \in bound => item.id \in IdsOf(memories)

\* C4 as amended: whenever create and then list have succeeded, the listed
\* collection contains a record with the created record's identifier exactly
\* when no other actor destroyed that record between the two calls.
C4_ListedContainsCreatedUnlessDestroyed ==
    "memories" \in bound =>
        (item.id \in IdsOf(memories) <=> ~DestroyedBeforeList(item.id))

C4_Witness ==
    /\ "memories" \in bound
    /\ Len(memories) >= 2
    /\ item.id \in IdsOf(memories)
    /\ destroyed # {}

\* C5: a record bound by a successful create carries exactly the title and
\* the content the script sent and a non-empty identifier; the identifier is
\* one the service assigned (fresh, unique in the account) and the request
\* the script sends carries no identifier.
C5_CreateReturnsInputs ==
    "item" \in bound =>
        /\ item.title = TITLE
        /\ item.content = CONTENT
        /\ item.id # NoId
        /\ item.id \in issued
        /\ Cardinality({i \in 1 .. Len(store) : store[i].id = item.id}) <= 1
        /\ "id" \notin DOMAIN CreateRequest

C5_Witness ==
    /\ "item" \in bound
    /\ pc = "print_item"
    /\ Len(store) = MaxStore + 1

\* C6: once list has returned, the console holds the confirmation line, the
\* header line and then one line per record of the returned sequence, in its
\* order, each showing that record's id, title and content; at the end the
\* number of record lines is the length of the sequence.
C6_OneLinePerRecord ==
    pc \in {"loop", "done"} =>
        /\ output = ExpectedOutput(idx)
        /\ idx <= Len(memories)
        /\ Count(events, "print_mem") = idx
        /\ pc = "done" => idx = Len(memories)

C6_Witness ==
    /\ pc = "done"
    /\ Len(memories) = MaxStore + 1
    /\ Len(output) = MaxStore + 3

\* C7: when list returns an empty sequence no per-record line is printed:
\* everything printed after the list call is the header line, and the run
\* is not aborted.
C7_EmptyListOnlyHeader ==
    ("memories" \in bound /\ memories = <<>>) =>
        /\ Count(events, "print_mem") = 0
        /\ pc \in {"print_header", "loop", "done"}
        /\ failedAt = "none"
        /\ pc \in {"loop", "done"} => output = <<PrintItemLine(item), PrintHeaderLine>>

C7_Witness ==
    /\ "memories" \in bound
    /\ memories = <<>>
    /\ pc = "done"

\* C8: a statement of the script changes the account's records only in
\* create, which adds exactly the one record it returns and leaves every
\* other record as it was; create is issued at most once.
C8_OnlyCreateWrites ==
    /\ [][ScriptStep =>
            \/ store' = store
            \/ /\ pc = "create"
               /\ item'.id \notin IdsOf(store)
               /\ \E pos \in 0 .. Len(store) : store' = InsertAt(store, pos, item')]_vars
    /\ [](Count(events, "create") <= 1)

C8_Witness ==
    /\ pc = "done"
    /\ "memories" \in bound
    /\ Len(store) = MaxStore + 1
    /\ destroyed = {}

\* C9: once a failure has occurred the console never grows: it is empty if
\* import, client initialisation or create failed and holds exactly the
\* confirmation line if list failed.
C9_OutputStopsAtFailure ==
    /\ [](failedAt # "none" =>
            output = IF failedAt = "list" THEN <<PrintItemLine(item)>> ELSE <<>>)
    /\ [][failedAt # "none" => output' = output]_vars

C9_Witness ==
    /\ failedAt = "list"
    /\ output = <<PrintItemLine(item)>>
    /\ credValid

\* C10: every run reaches a terminal state (done or aborted), and issues at
\* most one create call and at most one list call.
C10_Terminates ==
    /\ <>(pc \in Terminal)
    /\ [](Count(events, "create") <= 1 /\ Count(events, "list") <= 1)

C10_Witness ==
    /\ pc = "done"
    /\ idx = Len(memories)
    /\ idx >= 1
    /\ Count(events, "create") = 1
    /\ Count(events, "list") = 1

====
